---- MODULE Spec2Model ----
(***************************************************************************)
(* Model of scripts/watchers/watch_codebase_enhanced.py: the CacheManager  *)
(* (pending queue, cached-fingerprint map, priming requests), the          *)
(* CodebaseWatcher event handlers with their FileIndex (file_hashes), the  *)
(* periodic flush thread and the start-up sequence of main().              *)
(*                                                                         *)
(* Three threads of control exist: "main" (health wait, construction,      *)
(* initial scan, sleep loop), "ev" (the observer thread that dispatches    *)
(* filesystem events one after the other) and "fl" (the daemon thread      *)
(* running periodic_cache_flush).  The code takes no lock, so the threads  *)
(* interleave at every access to shared state; each action below is one    *)
(* such access (or a stretch of thread-local work ending with one).        *)
(***************************************************************************)
EXTENDS Integers, Sequences, FiniteSets, TLC

\* ------------------------------------------------------------------ bounds
MaxEnv == 3              \* filesystem changes made while the program runs
CACHE_BATCH_SIZE == 2    \* CACHE_BATCH_SIZE (environment setting, default 5)

\* --------------------------------------------------------------- constants
CACHE_MAX_FILE_SIZE == 100000
DefaultMaxModelLen == 8192
ReserveTokens == 100
BudgetMargin == 200
CharsPerToken == 4
HashModulus == 65536

Threads == {"main", "ev", "fl"}
Paths == {"a.py", "b.py"}

\* A file content is known by an identity and its length in characters.
NoFile == [id |-> 0, len |-> 0]
cA == [id |-> 1, len |-> 50]
cB == [id |-> 2, len |-> 31523]
cBig == [id |-> 3, len |-> 31524]
Contents == {cA, cB, cBig}

\* contents a file can have when the program starts
InitContents == {cA}

NoHash == -1
NoModel == "None"
ModelName == "model"

\* len(str(rel_path))
PathLen(p) == CASE p = "a.py" -> 4 [] p = "b.py" -> 4 [] OTHER -> 0

\* ext_to_lang lookup of _get_file_info
LanguageOf(p) == CASE p = "a.py" -> "python" [] p = "b.py" -> "python" [] OTHER -> ""

LangLen(l) == CASE l = "python" -> 6 [] OTHER -> 0

\* xxh64 hexdigest of the content: a fixed-width value that depends on the
\* content alone (the digest is kept to 16 bits here; the contents used have
\* pairwise different digests, as do xxh64's)
Hash(c) == (c.id * 40503 + c.len * 31) % HashModulus

\* _estimate_tokens applied to a text of n characters
_estimate_tokens(n) == n \div CharsPerToken

\* len("You are analyzing the file: " + path + "\n\n")
SystemPromptLen(p) == 28 + PathLen(p) + 2

\* len("```" + language + "\n" + content + "\n```")
FileContentLen(l, c) == 3 + LangLen(l) + 1 + c.len + 1 + 3

total_tokens(info) ==
    _estimate_tokens(SystemPromptLen(info.path)
                     + FileContentLen(info.language, info.content))
    + ReserveTokens

TooLargeNoMargin(total, maxlen) == total > maxlen

TooLargeStrict(total, maxlen) == total >= maxlen - BudgetMargin

\* the "too large" test of cache_file
TooLarge(total, maxlen) == total > maxlen - BudgetMargin

NoInfo == [path |-> "", content |-> NoFile, hash |-> NoHash, language |-> ""]

\* the dictionary returned by _get_file_info for an eligible readable file
FileInfo(p, c) == [path |-> p, content |-> c, hash |-> Hash(c),
                   language |-> LanguageOf(p)]

VARIABLES
    fs,            \* the watched tree: path -> content or NoFile
    events,        \* events emitted by the observer, not yet dispatched
    file_hashes,   \* CodebaseWatcher.file_hashes (NoHash: key absent)
    cached_files,  \* CacheManager.cached_files (NoHash: key absent)
    cache_queue,   \* CacheManager.cache_queue
    model_id,      \* CacheManager.model_id
    max_model_len, \* CacheManager.max_model_len
    pc,            \* position of each thread
    cur,           \* file_info local of cache_file, per thread
    processed,     \* local of process_queue, per thread
    toScan,        \* paths the rglob of _initial_scan has not yet yielded
    envCount,      \* number of filesystem changes so far
    primed,        \* history: fingerprints primed for a path since its last delete
    startLen,      \* history: queue length when the thread's flush began
    delHash,       \* history: fingerprint of a cached path when it was deleted
    healthy,       \* history: outcome of the last call of health_check
    ignored,       \* paths that _should_ignore rejects (.gitignore, EXTRA_IGNORE_DIRS)
    lastEnq        \* history: fingerprint last appended to the queue for a path

vars == <<fs, events, file_hashes, cached_files, cache_queue, model_id,
          max_model_len, pc, cur, processed, toScan, envCount, primed,
          startLen, delHash, healthy, ignored, lastEnq>>

_should_ignoreNothing(p) == FALSE

\* _should_ignore: the deny substrings and the binary extensions match none
\* of Paths; what is left is the extra-ignore directories and the .gitignore
\* matcher, both read from the configuration
_should_ignore(p) == p \in ignored

\* the body of _get_file_info: None (NoInfo) for what is not a regular,
\* eligible, small enough, readable file
_get_file_info(p, readable) ==
    IF fs[p] = NoFile \/ _should_ignore(p)
       \/ fs[p].len > CACHE_MAX_FILE_SIZE \/ ~readable
    THEN NoInfo
    ELSE FileInfo(p, fs[p])

Init ==
    /\ fs \in [Paths -> InitContents \cup {NoFile}]
    /\ events = <<>>
    /\ file_hashes = [p \in Paths |-> NoHash]
    /\ cached_files = [p \in Paths |-> NoHash]
    /\ cache_queue = <<>>
    /\ model_id = NoModel
    /\ max_model_len = DefaultMaxModelLen
    /\ pc = [t \in Threads |-> IF t = "main" THEN "health" ELSE "off"]
    /\ cur = [t \in Threads |-> NoInfo]
    /\ processed = [t \in Threads |-> 0]
    /\ toScan = {}
    /\ envCount = 0
    /\ primed = [p \in Paths |-> {}]
    /\ startLen = [t \in Threads |-> 0]
    /\ delHash = [p \in Paths |-> NoHash]
    /\ healthy = "unprobed"
    /\ ignored = {}
    /\ lastEnq = [p \in Paths |-> NoHash]


\* ------------------------------------------------------------ environment
\* Events reach the handlers only once observer.start() has run.
Emit(e) == IF pc["ev"] = "off" THEN events ELSE Append(events, e)

\* a file is written (created, or modified, possibly with the same content)
EnvWrite(p, c) ==
    /\ pc["main"] \notin {"health", "construct", "start_flush"}
    /\ envCount < MaxEnv
    /\ fs' = [fs EXCEPT ![p] = c]
    /\ events' = Emit([kind |-> IF fs[p] = NoFile THEN "created" ELSE "modified",
                       path |-> p])
    /\ envCount' = envCount + 1
    /\ UNCHANGED <<file_hashes, cached_files, cache_queue, model_id,
                   max_model_len, pc, cur, processed, toScan, primed,
                   startLen, delHash,
                   healthy, ignored, lastEnq>>

\* a file is removed
EnvDelete(p) ==
    /\ pc["main"] \notin {"health", "construct", "start_flush"}
    /\ envCount < MaxEnv
    /\ fs[p] # NoFile
    /\ fs' = [fs EXCEPT ![p] = NoFile]
    /\ events' = Emit([kind |-> "deleted", path |-> p])
    /\ envCount' = envCount + 1
    /\ UNCHANGED <<file_hashes, cached_files, cache_queue, model_id,
                   max_model_len, pc, cur, processed, toScan, primed,
                   startLen, delHash,
                   healthy, ignored, lastEnq>>

\* the destination of a rename: with two paths, the other one
Other(p) == CHOOSE q \in Paths : q # p

\* a file is renamed from p to Other(p), replacing what was there; watchdog
\* reports one moved event carrying the source path
EnvMove(p) ==
    /\ pc["main"] \notin {"health", "construct", "start_flush"}
    /\ envCount < MaxEnv
    /\ fs[p] # NoFile
    /\ fs' = [fs EXCEPT ![p] = NoFile, ![Other(p)] = fs[p]]
    /\ events' = Emit([kind |-> "moved", path |-> p])
    /\ envCount' = envCount + 1
    /\ UNCHANGED <<file_hashes, cached_files, cache_queue, model_id,
                   max_model_len, pc, cur, processed, toScan, primed,
                   startLen, delHash, healthy, ignored, lastEnq>>

\* ------------------------------------------------------------------- main
HealthProbeAlways(ok) ==
    /\ pc["main"] = "health"
    /\ healthy' = IF ok THEN "yes" ELSE "no"
    /\ pc' = [pc EXCEPT !["main"] = "construct"]
    /\ UNCHANGED <<fs, events, file_hashes, cached_files, cache_queue,
                   model_id, max_model_len, cur, processed, toScan, envCount,
                   primed, startLen, delHash, ignored, lastEnq>>

\* one round of "while not health_check()": the probe answers 200 (ok), or
\* another status, or requests.get raises
HealthProbe(ok) ==
    /\ pc["main"] = "health"
    /\ healthy' = IF ok THEN "yes" ELSE "no"
    /\ pc' = [pc EXCEPT !["main"] = IF ok THEN "construct" ELSE "health"]
    /\ UNCHANGED <<fs, events, file_hashes, cached_files, cache_queue,
                   model_id, max_model_len, cur, processed, toScan, envCount,
                   primed, startLen, delHash, ignored, lastEnq>>

\* what GET /v1/models can yield: failure (no model), a model without
\* max_model_len, a model with one
ModelInfoAnswers ==
    { [id |-> NoModel, len |-> DefaultMaxModelLen],
      [id |-> ModelName, len |-> DefaultMaxModelLen] }

\* CacheManager.__init__ with _get_model_info
Construct(ans) ==
    /\ pc["main"] = "construct"
    /\ model_id' = ans.id
    /\ max_model_len' = ans.len
    /\ pc' = [pc EXCEPT !["main"] = "start_flush"]
    /\ UNCHANGED <<fs, events, file_hashes, cached_files, cache_queue, cur,
                   processed, toScan, envCount, primed, startLen, delHash,
                   healthy, ignored, lastEnq>>

\* flush_thread.start(), then CodebaseWatcher.__init__ up to the rglob, which
\* visits each path once and yields it if it exists at that moment
StartFlush ==
    /\ pc["main"] = "start_flush"
    /\ pc' = [pc EXCEPT !["main"] = "scan", !["fl"] = "sleep"]
    /\ toScan' = Paths
    /\ UNCHANGED <<fs, events, file_hashes, cached_files, cache_queue,
                   model_id, max_model_len, cur, processed, envCount, primed,
                   startLen, delHash,
                   healthy, ignored, lastEnq>>

ScanStepEnqueues(p, readable) ==
    /\ pc["main"] = "scan"
    /\ p \in toScan
    /\ toScan' = toScan \ {p}
    /\ LET file_info == _get_file_info(p, readable) IN
         IF file_info # NoInfo
         THEN /\ file_hashes' = [file_hashes EXCEPT ![p] = file_info.hash]
              /\ cache_queue' = Append(cache_queue, file_info)
         ELSE UNCHANGED <<file_hashes, cache_queue>>
    /\ UNCHANGED <<fs, events, cached_files, cur, pc, model_id,
                   max_model_len, processed, envCount, primed, startLen,
                   delHash, healthy, ignored, lastEnq>>

\* one iteration of the loop of _initial_scan, up to the call of cache_file
ScanStep(p, readable) ==
    /\ pc["main"] = "scan"
    /\ p \in toScan
    /\ toScan' = toScan \ {p}
    /\ LET file_info == _get_file_info(p, readable) IN
         IF file_info # NoInfo
         THEN /\ file_hashes' = [file_hashes EXCEPT ![p] = file_info.hash]
              /\ cur' = [cur EXCEPT !["main"] = file_info]
              /\ pc' = [pc EXCEPT !["main"] = "cf_in"]
         ELSE UNCHANGED <<file_hashes, cur, pc>>
    /\ UNCHANGED <<fs, events, cached_files, cache_queue, model_id,
                   max_model_len, processed, envCount, primed, startLen,
                   delHash,
                   healthy, ignored, lastEnq>>

\* the scan is over; observer.schedule and observer.start
StartObserver ==
    /\ pc["main"] = "scan"
    /\ toScan = {}
    /\ pc' = [pc EXCEPT !["main"] = "watching", !["ev"] = "idle"]
    /\ UNCHANGED <<fs, events, file_hashes, cached_files, cache_queue,
                   model_id, max_model_len, cur, processed, toScan, envCount,
                   primed, startLen, delHash,
                   healthy, ignored, lastEnq>>

\* ------------------------------------------------------------- cache_file
\* where a thread continues when cache_file returns
AfterCacheFile(t) == IF t = "main" THEN "scan" ELSE "pq_loop"

\* cache_file returns to its caller (process_queue then counts the entry)
CfReturn(t) ==
    /\ pc' = [pc EXCEPT ![t] = AfterCacheFile(t)]
    /\ cur' = [cur EXCEPT ![t] = NoInfo]
    /\ processed' = [processed EXCEPT ![t] = IF t = "main" THEN @ ELSE @ + 1]

\* the budget test and, when it passes, the POST of the priming request
CfBudget(t) ==
    IF TooLarge(total_tokens(cur[t]), max_model_len)
    THEN CfReturn(t)
    ELSE /\ pc' = [pc EXCEPT ![t] = "cf_post"]
         /\ UNCHANGED <<cur, processed>>

CfInNoModelTest(t) ==
    /\ pc[t] = "cf_in"
    /\ IF cached_files[cur[t].path] # NoHash
       THEN /\ pc' = [pc EXCEPT ![t] = "cf_get"]
            /\ UNCHANGED <<cur, processed>>
       ELSE CfBudget(t)
    /\ UNCHANGED <<fs, events, file_hashes, cached_files, cache_queue,
                   model_id, max_model_len, toScan, envCount, primed,
                   startLen, delHash, healthy, ignored, lastEnq>>

\* cache_file, lines 86-90: model_id test and "path in self.cached_files"
CfIn(t) ==
    /\ pc[t] = "cf_in"
    /\ IF model_id = NoModel
       THEN CfReturn(t)
       ELSE IF cached_files[cur[t].path] # NoHash
            THEN /\ pc' = [pc EXCEPT ![t] = "cf_get"]
                 /\ UNCHANGED <<cur, processed>>
            ELSE CfBudget(t)
    /\ UNCHANGED <<fs, events, file_hashes, cached_files, cache_queue,
                   model_id, max_model_len, toScan, envCount, primed,
                   startLen, delHash,
                   healthy, ignored, lastEnq>>

\* cache_file, line 91: self.cached_files[path] == hash; KeyError when the
\* key was deleted since line 90
CfGet(t) ==
    /\ pc[t] = "cf_get"
    /\ IF cached_files[cur[t].path] = NoHash
       THEN /\ pc' = [pc EXCEPT ![t] = "crashed"]
            /\ cur' = [cur EXCEPT ![t] = NoInfo]
            /\ UNCHANGED processed
       ELSE IF cached_files[cur[t].path] = cur[t].hash
            THEN CfReturn(t)
            ELSE CfBudget(t)
    /\ UNCHANGED <<fs, events, file_hashes, cached_files, cache_queue,
                   model_id, max_model_len, toScan, envCount, primed,
                   startLen, delHash,
                   healthy, ignored, lastEnq>>

Statuses == {200, 500, 0}    \* 0: requests.post raised

\* requests.post returns a response or raises (lines 117-121)
CfRespond(t, status) ==
    /\ pc[t] = "cf_post"
    /\ pc' = [pc EXCEPT ![t] = IF status = 200 THEN "cf_ok" ELSE "cf_err"]
    /\ UNCHANGED <<fs, events, file_hashes, cached_files, cache_queue,
                   model_id, max_model_len, cur, processed, toScan, envCount,
                   primed, startLen, delHash,
                   healthy, ignored, lastEnq>>

CfStoreWritesIndex(t) ==
    /\ pc[t] = "cf_ok"
    /\ cached_files' = [cached_files EXCEPT ![cur[t].path] = cur[t].hash]
    /\ file_hashes' = [file_hashes EXCEPT ![cur[t].path] = cur[t].hash]
    /\ primed' = [primed EXCEPT ![cur[t].path] = @ \cup {cur[t].hash}]
    /\ CfReturn(t)
    /\ UNCHANGED <<fs, events, cache_queue, model_id,
                   max_model_len, toScan, envCount, startLen, delHash,
                   healthy, ignored, lastEnq>>

\* status 200: "self.cached_files[path] = hash" (line 126)
CfStore(t) ==
    /\ pc[t] = "cf_ok"
    /\ cached_files' = [cached_files EXCEPT ![cur[t].path] = cur[t].hash]
    /\ primed' = [primed EXCEPT ![cur[t].path] = @ \cup {cur[t].hash}]
    /\ CfReturn(t)
    /\ UNCHANGED <<fs, events, file_hashes, cache_queue, model_id,
                   max_model_len, toScan, envCount, startLen, delHash,
                   healthy, ignored, lastEnq>>

CfLogErrorRequeues(t) ==
    /\ pc[t] = "cf_err"
    /\ cache_queue' = Append(cache_queue, cur[t])
    /\ CfReturn(t)
    /\ UNCHANGED <<fs, events, file_hashes, cached_files, model_id,
                   max_model_len, toScan, envCount, primed, startLen, delHash,
                   healthy, ignored, lastEnq>>

CfLogErrorForgets(t) ==
    /\ pc[t] = "cf_err"
    /\ cached_files' = [cached_files EXCEPT ![cur[t].path] = NoHash]
    /\ CfReturn(t)
    /\ UNCHANGED <<fs, events, file_hashes, cache_queue, model_id,
                   max_model_len, toScan, envCount, primed, startLen, delHash,
                   healthy, ignored, lastEnq>>

\* any other status, or an exception: logged only (lines 127-130)
CfLogError(t) ==
    /\ pc[t] = "cf_err"
    /\ CfReturn(t)
    /\ UNCHANGED <<fs, events, file_hashes, cached_files, cache_queue,
                   model_id, max_model_len, toScan, envCount, primed,
                   startLen, delHash,
                   healthy, ignored, lastEnq>>

\* ---------------------------------------------------------- process_queue
\* where a thread continues when process_queue returns
AfterProcessQueue(t) == IF t = "fl" THEN "sleep" ELSE "idle"

\* "while self.cache_queue and processed < CACHE_BATCH_SIZE"
LoopGuard(queue, n) == queue # <<>> /\ n < CACHE_BATCH_SIZE

\* process_queue: the test of the queue.  The entry test "if not
\* self.cache_queue" and the first evaluation of the loop condition read the
\* same thing and nothing is written between them: they are one step here.
PqLoop(t) ==
    /\ pc[t] = "pq_loop"
    /\ IF LoopGuard(cache_queue, processed[t])
       THEN /\ pc' = [pc EXCEPT ![t] = "pq_pop"]
            /\ startLen' = [startLen EXCEPT ![t] = IF processed[t] = 0
                                                   THEN Len(cache_queue) ELSE @]
            /\ UNCHANGED processed
       ELSE /\ pc' = [pc EXCEPT ![t] = AfterProcessQueue(t)]
            /\ processed' = [processed EXCEPT ![t] = 0]
            /\ startLen' = [startLen EXCEPT ![t] = 0]
    /\ UNCHANGED <<fs, events, file_hashes, cached_files, cache_queue,
                   model_id, max_model_len, cur, toScan, envCount, primed,
                   delHash,
                   healthy, ignored, lastEnq>>

\* "file_info = self.cache_queue.popleft()": IndexError on an empty deque,
\* which nothing catches
PqPop(t) ==
    /\ pc[t] = "pq_pop"
    /\ IF cache_queue = <<>>
       THEN /\ pc' = [pc EXCEPT ![t] = "crashed"]
            /\ UNCHANGED <<cache_queue, cur>>
       ELSE /\ cur' = [cur EXCEPT ![t] = Head(cache_queue)]
            /\ cache_queue' = Tail(cache_queue)
            /\ pc' = [pc EXCEPT ![t] = "cf_in"]
    /\ UNCHANGED <<fs, events, file_hashes, cached_files, model_id,
                   max_model_len, processed, toScan, envCount, primed,
                   startLen, delHash,
                   healthy, ignored, lastEnq>>

\* periodic_cache_flush: the sleep ends and process_queue is called
FlushTick ==
    /\ pc["fl"] = "sleep"
    /\ pc' = [pc EXCEPT !["fl"] = "pq_loop"]
    /\ processed' = [processed EXCEPT !["fl"] = 0]
    /\ UNCHANGED <<fs, events, file_hashes, cached_files, cache_queue,
                   model_id, max_model_len, cur, toScan, envCount, primed,
                   startLen, delHash,
                   healthy, ignored, lastEnq>>

\* ----------------------------------------------------------- add_to_queue
AlreadyCachedNever(cached, info) == FALSE

\* add_to_queue, lines 135-137: already cached with the same content
AlreadyCached(cached, info) == cached[info.path] = info.hash

\* the call of add_to_queue from a handler, up to the dedup test
add_to_queue(info) ==
    IF AlreadyCached(cached_files, info)
    THEN UNCHANGED <<pc, cur>>
    ELSE /\ cur' = [cur EXCEPT !["ev"] = info]
         /\ pc' = [pc EXCEPT !["ev"] = "aq_append"]

\* "self.cache_queue.append(file_info)"
AqAppend ==
    /\ pc["ev"] = "aq_append"
    /\ cache_queue' = Append(cache_queue, cur["ev"])
    /\ cur' = [cur EXCEPT !["ev"] = NoInfo]
    /\ pc' = [pc EXCEPT !["ev"] = "aq_len"]
    /\ lastEnq' = [lastEnq EXCEPT ![cur["ev"].path] = cur["ev"].hash]
    /\ UNCHANGED <<fs, events, file_hashes, cached_files, model_id,
                   max_model_len, processed, toScan, envCount, primed,
                   startLen, delHash, healthy, ignored>>

BatchReachedNever(queue) == FALSE

BatchReachedStrict(queue) == Len(queue) > CACHE_BATCH_SIZE

\* "len(self.cache_queue) >= CACHE_BATCH_SIZE"
BatchReached(queue) == Len(queue) >= CACHE_BATCH_SIZE

\* the batch test of add_to_queue and the call of process_queue
AqLen ==
    /\ pc["ev"] = "aq_len"
    /\ pc' = [pc EXCEPT !["ev"] = IF BatchReached(cache_queue)
                                  THEN "pq_loop" ELSE "idle"]
    /\ processed' = [processed EXCEPT !["ev"] = 0]
    /\ UNCHANGED <<fs, events, file_hashes, cached_files, cache_queue,
                   model_id, max_model_len, cur, toScan, envCount, primed,
                   startLen, delHash,
                   healthy, ignored, lastEnq>>

\* --------------------------------------------------------- event handlers
on_createdRaises(p, readable) ==
    LET file_info == _get_file_info(p, readable) IN
    IF file_info = NoInfo
    THEN /\ pc' = [pc EXCEPT !["ev"] = "crashed"]
         /\ UNCHANGED <<file_hashes, cached_files, cur, delHash, primed,
                        lastEnq>>
    ELSE /\ file_hashes' = [file_hashes EXCEPT ![p] = file_info.hash]
         /\ add_to_queue(file_info)
         /\ delHash' = [delHash EXCEPT ![p] = NoHash]
         /\ UNCHANGED <<cached_files, primed, lastEnq>>

\* on_created
on_created(p, readable) ==
    LET file_info == _get_file_info(p, readable) IN
    IF file_info = NoInfo
    THEN UNCHANGED <<file_hashes, cached_files, pc, cur, delHash, primed,
                    lastEnq>>
    ELSE /\ file_hashes' = [file_hashes EXCEPT ![p] = file_info.hash]
         /\ add_to_queue(file_info)
         /\ delHash' = [delHash EXCEPT ![p] = NoHash]
         /\ UNCHANGED <<cached_files, primed, lastEnq>>

on_modifiedNoCompare(p, readable) ==
    LET file_info == _get_file_info(p, readable) IN
    IF file_info = NoInfo
    THEN UNCHANGED <<file_hashes, cached_files, pc, cur, delHash, primed,
                    lastEnq>>
    ELSE /\ file_hashes' = [file_hashes EXCEPT ![p] = file_info.hash]
         /\ add_to_queue(file_info)
         /\ UNCHANGED <<cached_files, delHash, primed, lastEnq>>

\* on_modified
on_modified(p, readable) ==
    LET file_info == _get_file_info(p, readable) IN
    IF file_info = NoInfo \/ file_hashes[p] = file_info.hash
    THEN UNCHANGED <<file_hashes, cached_files, pc, cur, delHash, primed,
                    lastEnq>>
    ELSE /\ file_hashes' = [file_hashes EXCEPT ![p] = file_info.hash]
         /\ add_to_queue(file_info)
         /\ UNCHANGED <<cached_files, delHash, primed, lastEnq>>

on_deletedKeepsCache(p) ==
    IF file_hashes[p] = NoHash
    THEN UNCHANGED <<file_hashes, cached_files, pc, cur, delHash, primed,
                    lastEnq>>
    ELSE /\ file_hashes' = [file_hashes EXCEPT ![p] = NoHash]
         /\ delHash' = [delHash EXCEPT ![p] = IF cached_files[p] # NoHash
                                             THEN file_hashes[p] ELSE NoHash]
         /\ lastEnq' = [lastEnq EXCEPT ![p] = NoHash]
         /\ UNCHANGED <<cached_files, primed, pc, cur>>

\* on_deleted
on_deleted(p) ==
    IF file_hashes[p] = NoHash
    THEN UNCHANGED <<file_hashes, cached_files, pc, cur, delHash, primed,
                    lastEnq>>
    ELSE /\ file_hashes' = [file_hashes EXCEPT ![p] = NoHash]
         /\ cached_files' = [cached_files EXCEPT ![p] = NoHash]
         /\ primed' = [primed EXCEPT ![p] = {}]
         /\ delHash' = [delHash EXCEPT ![p] = IF cached_files[p] # NoHash
                                             THEN file_hashes[p] ELSE NoHash]
         /\ lastEnq' = [lastEnq EXCEPT ![p] = NoHash]
         /\ UNCHANGED <<pc, cur>>

\* a moved event: CodebaseWatcher defines no on_moved, so the inherited
\* FileSystemEventHandler.on_moved runs, which does nothing
on_moved(p) ==
    UNCHANGED <<file_hashes, cached_files, pc, cur, delHash, primed, lastEnq>>

\* the observer thread takes the next event and runs its handler, up to the
\* first step of add_to_queue
EvDispatch(readable) ==
    /\ pc["ev"] = "idle"
    /\ pc["main"] = "watching"
    /\ events # <<>>
    /\ events' = Tail(events)
    /\ LET e == Head(events) IN
         CASE e.kind = "created"  -> on_created(e.path, readable)
           [] e.kind = "modified" -> on_modified(e.path, readable)
           [] e.kind = "deleted"  -> on_deleted(e.path)
           [] e.kind = "moved"    -> on_moved(e.path)
    /\ UNCHANGED <<fs, cache_queue, model_id, max_model_len, processed,
                   toScan, envCount, startLen, healthy, ignored>>

\* ----------------------------------------------------------- specification
Next ==
    \/ \E p \in Paths, c \in Contents : EnvWrite(p, c)
    \/ \E p \in Paths : EnvDelete(p)
    \/ \E ok \in BOOLEAN : HealthProbe(ok)
    \/ \E ans \in ModelInfoAnswers : Construct(ans)
    \/ StartFlush
    \/ \E p \in Paths, readable \in BOOLEAN : ScanStep(p, readable)
    \/ StartObserver
    \/ \E t \in Threads : CfIn(t)
    \/ \E t \in Threads : CfGet(t)
    \/ \E t \in Threads, status \in Statuses : CfRespond(t, status)
    \/ \E t \in Threads : CfStore(t)
    \/ \E t \in Threads : CfLogError(t)
    \/ \E t \in Threads : PqLoop(t)
    \/ \E t \in Threads : PqPop(t)
    \/ FlushTick
    \/ AqAppend
    \/ AqLen
    \/ \E readable \in BOOLEAN : EvDispatch(readable)

Spec == Init /\ [][Next]_vars

\* the same program in a tree where files are also renamed
NextMove == Next \/ \E p \in Paths : EnvMove(p)

SpecMove == Init /\ [][NextMove]_vars


\* The same program in front of a backend that answers every priming request
\* with status 200.
NextOK ==
    \/ \E p \in Paths, c \in Contents : EnvWrite(p, c)
    \/ \E p \in Paths : EnvDelete(p)
    \/ \E ok \in BOOLEAN : HealthProbe(ok)
    \/ \E ans \in ModelInfoAnswers : Construct(ans)
    \/ StartFlush
    \/ \E p \in Paths, readable \in BOOLEAN : ScanStep(p, readable)
    \/ StartObserver
    \/ \E t \in Threads : CfIn(t)
    \/ \E t \in Threads : CfGet(t)
    \/ \E t \in Threads : CfRespond(t, 200)
    \/ \E t \in Threads : CfStore(t)
    \/ \E t \in Threads : PqLoop(t)
    \/ \E t \in Threads : PqPop(t)
    \/ FlushTick
    \/ AqAppend
    \/ AqLen
    \/ \E readable \in BOOLEAN : EvDispatch(readable)

SpecOK == Init /\ [][NextOK]_vars

\* ------------------------------------------------------------- vocabulary
Min(a, b) == IF a < b THEN a ELSE b

\* the content whose fingerprint is h
ContentOf(h) == CHOOSE c \in Contents : Hash(c) = h

\* the budget check passes for content c at path p
WithinBudget(p, c) ==
    total_tokens(FileInfo(p, c)) <= max_model_len - BudgetMargin

\* the thread is inside process_queue (cache_file included)
InFlush(t) ==
    pc[t] \in {"pq_loop", "pq_pop", "cf_in", "cf_get", "cf_post", "cf_ok", "cf_err"}

\* the thread is inside add_to_queue, process_queue or cache_file
InCacheManager(t) == InFlush(t) \/ pc[t] \in {"aq_append", "aq_len"}

\* a priming request of the thread is in flight
InFlight(t) == pc[t] = "cf_post"

\* nothing is pending anywhere: no event, no queue entry, no thread at work
Quiescent ==
    /\ pc["main"] = "watching"
    /\ pc["ev"] = "idle"
    /\ pc["fl"] = "sleep"
    /\ events = <<>>
    /\ cache_queue = <<>>

\* ------------------------------------------------------------------ claims
\* C1 (convergence): whenever the queue is empty, no priming request is in
\* flight and no event is pending, every path of file_hashes whose content is
\* within budget has cached_files[path] = file_hashes[path] (checked in front
\* of a backend that never fails, with the model identifier known).
C1_Convergence ==
    (Quiescent /\ model_id # NoModel) =>
        \A p \in Paths :
            (file_hashes[p] # NoHash /\ WithinBudget(p, ContentOf(file_hashes[p])))
                => cached_files[p] = file_hashes[p]

\* C2 (deletion clears state): when a created event is handled for a path
\* that was cached when it was deleted, and the new file has the content the
\* deleted one had, the file is enqueued for priming.
C2_RecreatedIsReprimed ==
    [][\A p \in Paths :
        ( /\ pc["ev"] = "idle"
          /\ events # <<>>
          /\ events' = Tail(events)
          /\ Head(events) = [kind |-> "created", path |-> p]
          /\ delHash[p] # NoHash
          /\ file_hashes'[p] = delHash[p] )
        => pc'["ev"] = "aq_append"]_vars

\* C3 (mutual exclusion): the event thread and the flush thread are never
\* inside the cache manager at the same time, and no two priming requests for
\* the same path are in flight together.
C3_MutualExclusion ==
    /\ ~(InCacheManager("ev") /\ InCacheManager("fl"))
    /\ \A t, u \in Threads :
         (t # u /\ InFlight(t) /\ InFlight(u)) => cur[t].path # cur[u].path


\* C4 as stated (idempotent dedup): once a priming request for (path,
\* fingerprint) has succeeded and the path has not been deleted since, no
\* add_to_queue appends that pair again and no priming request is sent for it.
C4_PrimedOnceNeverAgain ==
    [][ /\ (pc["ev"] # "aq_append" /\ pc'["ev"] = "aq_append")
            => cur'["ev"].hash \notin primed[cur'["ev"].path]
        /\ \A t \in Threads :
            (pc[t] # "cf_post" /\ pc'[t] = "cf_post")
                => cur[t].hash \notin primed[cur[t].path] ]_vars

\* C4 as amended: while cached_files[path] is the fingerprint (the latest
\* successful priming of the path was for it and no delete came since), no
\* add_to_queue appends that pair and no priming request is sent for it.
C4_DedupWhileCached ==
    [][ /\ (pc["ev"] # "aq_append" /\ pc'["ev"] = "aq_append")
            => cached_files[cur'["ev"].path] # cur'["ev"].hash
        /\ \A t \in Threads :
            (pc[t] # "cf_post" /\ pc'[t] = "cf_post")
                => cached_files[cur[t].path] # cur[t].hash ]_vars

\* a change back to the cached content was handled without enqueuing: the
\* queue still holds the older content of a path whose index entry equals its
\* cached fingerprint
C4_Witness ==
    /\ pc["ev"] = "idle"
    /\ events = <<>>
    /\ Len(cache_queue) = 1
    /\ LET e == cache_queue[1] IN
         /\ file_hashes[e.path] # e.hash
         /\ file_hashes[e.path] # NoHash
         /\ file_hashes[e.path] = cached_files[e.path]

\* C5 (batch trigger): the length test of add_to_queue starts a flush exactly
\* when the queue holds CACHE_BATCH_SIZE entries or more, otherwise the event
\* thread goes back to idle without sending anything; and when a flush started
\* by the event thread returns, the queue is empty.
C5_BatchTrigger ==
    [][ /\ (pc["ev"] = "aq_len" /\ pc'["ev"] # "aq_len")
            => IF Len(cache_queue) >= CACHE_BATCH_SIZE
               THEN pc'["ev"] = "pq_loop"
               ELSE pc'["ev"] = "idle"
        /\ (InFlush("ev") /\ pc'["ev"] = "idle") => cache_queue' = <<>> ]_vars

\* the event thread's flush began with a full batch and has drained all of it
C5_Witness ==
    /\ pc["ev"] = "pq_loop"
    /\ startLen["ev"] = CACHE_BATCH_SIZE
    /\ processed["ev"] = CACHE_BATCH_SIZE
    /\ cache_queue = <<>>

\* C6 (single flush): a flush that returns has removed exactly
\* min(queue length at its start, CACHE_BATCH_SIZE) entries.
C6_FlushRemovesMin ==
    [][\A t \in {"ev", "fl"} :
        (pc[t] = "pq_loop" /\ pc'[t] = AfterProcessQueue(t))
            => processed[t] = Min(startLen[t], CACHE_BATCH_SIZE)]_vars

\* C8 (budget safety): a fingerprint recorded in cached_files belongs to a
\* content that passes the budget check for that path, and every priming
\* request sent is for such a content.
C8_BudgetSafety ==
    /\ \A p \in Paths :
         cached_files[p] # NoHash => WithinBudget(p, ContentOf(cached_files[p]))
    /\ \A t \in Threads :
         pc[t] \in {"cf_post", "cf_ok", "cf_err"}
             => WithinBudget(cur[t].path, cur[t].content)

\* an over-budget file has been through the queue and is not cached, while a
\* file exactly at the threshold is
C8_Witness ==
    /\ Quiescent
    /\ \E p, q \in Paths :
         /\ file_hashes[p] = Hash(cBig)
         /\ cached_files[p] = NoHash
         /\ cached_files[q] = Hash(cB)

\* C10 (failed priming): the steps of cache_file that follow a non-200 answer
\* or an exception leave cached_files and file_hashes as they were.
C10_FailureChangesNothing ==
    [][\A t \in Threads :
        ( \/ (pc[t] = "cf_post" /\ pc'[t] = "cf_err")
          \/ (pc[t] = "cf_err" /\ pc'[t] # "cf_err") )
        => (cached_files' = cached_files /\ file_hashes' = file_hashes)]_vars

\* a request for a new content of an already cached path has failed and the
\* earlier fingerprint is still the cached one
C10_Witness ==
    \E t \in Threads :
        /\ pc[t] = "cf_err"
        /\ cached_files[cur[t].path] # NoHash
        /\ cached_files[cur[t].path] # cur[t].hash


\* ------------------------------------------------------ the budget boundary
\* cache_file applied during the initial scan to one file, for several model
\* context lengths and for content lengths on both sides of the threshold.
BoundarySpan == 6

BudgetModelLens == {1024, 2048, 4096, 8192, 16384}

\* the least content length of "a.py" whose total reaches maxlen - 200
BoundaryLen(maxlen) ==
    CharsPerToken * (maxlen - BudgetMargin - ReserveTokens)
    - SystemPromptLen("a.py") - FileContentLen("python", NoFile)

BoundaryLens(maxlen) ==
    (BoundaryLen(maxlen) - BoundarySpan) .. (BoundaryLen(maxlen) + BoundarySpan + 3)

InitBudget ==
    /\ max_model_len \in BudgetModelLens
    /\ \E n \in BoundaryLens(max_model_len) :
         fs = [p \in Paths |-> IF p = "a.py" THEN [id |-> 4, len |-> n] ELSE NoFile]
    /\ events = <<>>
    /\ file_hashes = [p \in Paths |-> NoHash]
    /\ cached_files = [p \in Paths |-> NoHash]
    /\ cache_queue = <<>>
    /\ model_id = ModelName
    /\ pc = [t \in Threads |-> CASE t = "main" -> "scan"
                                 [] t = "fl" -> "sleep"
                                 [] OTHER -> "off"]
    /\ cur = [t \in Threads |-> NoInfo]
    /\ processed = [t \in Threads |-> 0]
    /\ toScan = {"a.py"}
    /\ envCount = 0
    /\ primed = [p \in Paths |-> {}]
    /\ startLen = [t \in Threads |-> 0]
    /\ delHash = [p \in Paths |-> NoHash]
    /\ healthy = "yes"
    /\ ignored = {}
    /\ lastEnq = [p \in Paths |-> NoHash]

NextBudget ==
    \/ ScanStep("a.py", TRUE)
    \/ CfIn("main")
    \/ \E status \in Statuses : CfRespond("main", status)
    \/ CfStore("main")
    \/ CfLogError("main")

SpecBudget == InitBudget /\ [][NextBudget]_vars

\* C9 (budget boundary): when the budget test of cache_file is reached with
\* total_tokens equal to max_model_len - 200 the request is sent, and with
\* total_tokens one more than that cache_file returns without a request and
\* without changing cached_files, file_hashes or the queue.
C9_BudgetBoundary ==
    [][\A t \in Threads :
        ( /\ pc[t] \in {"cf_in", "cf_get"}
          /\ pc'[t] \notin {"cf_in", "cf_get", "crashed"}
          /\ model_id # NoModel
          /\ cached_files[cur[t].path] # cur[t].hash )
        => /\ total_tokens(cur[t]) = max_model_len - BudgetMargin
                => pc'[t] = "cf_post"
           /\ total_tokens(cur[t]) = max_model_len - BudgetMargin + 1
                => /\ pc'[t] = AfterCacheFile(t)
                   /\ cached_files' = cached_files
                   /\ file_hashes' = file_hashes
                   /\ cache_queue' = cache_queue ]_vars

\* a request is in flight for a file whose total is exactly the threshold
C9_Witness ==
    \E t \in Threads :
        /\ pc[t] = "cf_post"
        /\ total_tokens(cur[t]) = max_model_len - BudgetMargin
        /\ _estimate_tokens(SystemPromptLen(cur[t].path)
               + FileContentLen(cur[t].language, cur[t].content)) * CharsPerToken
           # SystemPromptLen(cur[t].path)
               + FileContentLen(cur[t].language, cur[t].content)


\* ------------------------------------------------------------------ fairness
\* the steps a thread takes inside process_queue and cache_file
ThreadStep(t) ==
    \/ PqLoop(t)
    \/ PqPop(t)
    \/ CfIn(t)
    \/ CfGet(t)
    \/ \E status \in Statuses : CfRespond(t, status)
    \/ CfStore(t)
    \/ CfLogError(t)

\* Every thread that can take a step eventually takes one, the sleep of the
\* flush thread ends, and every priming request returns.
FairSpec ==
    /\ Spec
    /\ WF_vars(FlushTick)
    /\ \A t \in Threads : WF_vars(ThreadStep(t))
    /\ WF_vars(AqAppend)
    /\ WF_vars(AqLen)
    /\ WF_vars(\E readable \in BOOLEAN : EvDispatch(readable))

\* C7 (timer liveness): whatever is in the pending queue is eventually taken
\* out of it.
C7_TimerLiveness == (cache_queue # <<>>) ~> (cache_queue = <<>>)


\* ------------------------------------------------------------ self-healing
\* the fingerprints a file of the tree can have
Fingerprints == {Hash(c) : c \in Contents}

\* FairSpec, with a main thread that goes on too, and a backend that, asked
\* again and again by a thread, answers 200 to it again and again
HealSpec ==
    /\ FairSpec
    /\ WF_vars(\E p \in Paths, readable \in BOOLEAN : ScanStep(p, readable))
    /\ WF_vars(StartObserver)
    /\ \A t \in Threads : SF_vars(CfRespond(t, 200))

\* the priming request for the recorded content h of path p has just failed
FailedFor(p, h) ==
    \E t \in Threads : /\ pc[t] = "cf_err"
                       /\ cur[t].path = p
                       /\ cur[t].hash = h
                       /\ file_hashes[p] = h

\* C11 (self-healing after failure): once a priming request for the recorded
\* content of a path has failed, the path is eventually cached with that
\* content, unless its recorded content changes first.
C11_SelfHealing ==
    \A p \in Paths, h \in Fingerprints :
        FailedFor(p, h) ~> (cached_files[p] = h \/ file_hashes[p] # h)


\* ------------------------------------------------------------ degraded mode
\* C12 (degraded mode): while no model identifier is known, no thread is at or
\* past the sending of a priming request and cached_files has no entry.
C12_DegradedMode ==
    model_id = NoModel =>
        /\ \A t \in Threads : pc[t] \notin {"cf_get", "cf_post", "cf_ok", "cf_err"}
        /\ \A p \in Paths : cached_files[p] = NoHash

\* without a model identifier the scan has recorded a file, the observer has
\* enqueued a change and the periodic flush has taken it out of the queue
C12_Witness ==
    /\ model_id = NoModel
    /\ pc["main"] = "watching"
    /\ pc["fl"] = "pq_loop"
    /\ processed["fl"] = 1
    /\ cache_queue = <<>>
    /\ \E p \in Paths : file_hashes[p] # NoHash


\* ------------------------------------------------------------------ renames
\* the observer thread takes a moved event from the head of the event queue
MovedDispatched ==
    /\ pc["ev"] = "idle"
    /\ events # <<>>
    /\ Head(events).kind = "moved"
    /\ events' = Tail(events)

\* C13 (rename handling): handling a moved event removes the old path from
\* file_hashes and from cached_files, and records the new path, when it is an
\* eligible file that can be read, as a created event would.
C13_RenameHandling ==
    [][MovedDispatched =>
         LET old == Head(events).path
             new == Other(Head(events).path) IN
           /\ file_hashes'[old] = NoHash
           /\ cached_files'[old] = NoHash
           /\ \/ file_hashes'[new] = file_hashes[new]
              \/ _get_file_info(new, TRUE) # NoInfo
                   /\ file_hashes'[new] = _get_file_info(new, TRUE).hash]_vars


\* --------------------------------------------------------- change detection
\* the observer thread takes a modified event from the head of the event queue
ModifiedDispatched ==
    /\ pc["ev"] = "idle"
    /\ events # <<>>
    /\ Head(events).kind = "modified"
    /\ events' = Tail(events)

\* the effect of one call of add_to_queue for the content now at path p: the
\* observer thread goes to the append with that record, or, when cached_files
\* already holds the fingerprint, the call returns at once
EnqueuedOnce(p) ==
    IF cached_files[p] = Hash(fs[p])
    THEN pc'["ev"] = "idle" /\ cur' = cur
    ELSE pc'["ev"] = "aq_append" /\ cur'["ev"] = FileInfo(p, fs[p])

InScan ==
    pc["main"] \in {"scan", "cf_in", "cf_get", "cf_post", "cf_ok", "cf_err"}

\* the rglob of _initial_scan yields its next path
ScanStepTaken == pc["main"] = "scan" /\ toScan' # toScan

\* C15 (initial scan): during the scan the pending queue stays empty; each
\* path is visited once, and the visit either records the fingerprint of the
\* file and calls cache_file directly with its record, or (no eligible
\* readable file there) records nothing and calls nothing.
C15_InitialScan ==
    /\ [](InScan => cache_queue = <<>>)
    /\ [][ScanStepTaken =>
            \E p \in toScan :
               /\ toScan' = toScan \ {p}
               /\ \/ /\ fs[p] # NoFile
                     /\ file_hashes' = [file_hashes EXCEPT ![p] = Hash(fs[p])]
                     /\ pc'["main"] = "cf_in"
                     /\ cur'["main"] = FileInfo(p, fs[p])
                  \/ /\ file_hashes' = file_hashes
                     /\ pc'["main"] = "scan"
                     /\ cur' = cur]_vars

\* the scan is over and nothing has happened since: a file present at startup
\* is recorded and primed, and the queue is empty
C15_Witness ==
    /\ pc["main"] = "watching"
    /\ envCount = 0
    /\ cache_queue = <<>>
    /\ toScan = {}
    /\ \E p \in Paths : /\ fs[p] # NoFile
                        /\ file_hashes[p] = Hash(fs[p])
                        /\ cached_files[p] = file_hashes[p]


\* ---------------------------------------------------------------- lifecycle
\* the filesystem-event consumer has been started
ConsumerStarted == pc["ev"] # "off"

\* the periodic flush timer has taken a step: its sleep has ended and it is in,
\* or has died in, process_queue
TimerStepped == pc["fl"] \notin {"off", "sleep"}

\* C16 (lifecycle ordering): neither the event consumer nor the periodic flush
\* timer has taken a step unless the initial scan is over and the watcher is
\* in the Watching state.
C16_LifecycleOrdering ==
    (ConsumerStarted \/ TimerStepped) => pc["main"] = "watching"


\* ------------------------------------------------------------ backend gating
\* nothing has been done yet: no model query, no scan step, no thread started,
\* no priming request
Pristine ==
    /\ model_id = NoModel
    /\ toScan = {}
    /\ \A p \in Paths : file_hashes[p] = NoHash /\ cached_files[p] = NoHash
    /\ \A t \in Threads : cur[t] = NoInfo
    /\ pc["ev"] = "off"
    /\ pc["fl"] = "off"

\* C17 (backend gating): as long as no health probe has answered 200 (none
\* was made, or the last one failed) the watcher is still waiting for the
\* backend and nothing has been done.
C17_BackendGating ==
    healthy # "yes" => pc["main"] = "health" /\ Pristine

\* a probe has failed and the watcher is still waiting
C17_Witness == healthy = "no" /\ pc["main"] = "health"


\* -------------------------------------------------------------- eligibility
\* a file one byte over the size limit
cHuge == [id |-> 5, len |-> CACHE_MAX_FILE_SIZE + 1]

\* a tree whose .gitignore names b.py and which may hold an oversize file
InitIgnore ==
    /\ fs \in [Paths -> InitContents \cup {NoFile, cHuge}]
    /\ events = <<>>
    /\ file_hashes = [p \in Paths |-> NoHash]
    /\ cached_files = [p \in Paths |-> NoHash]
    /\ cache_queue = <<>>
    /\ model_id = NoModel
    /\ max_model_len = DefaultMaxModelLen
    /\ pc = [t \in Threads |-> IF t = "main" THEN "health" ELSE "off"]
    /\ cur = [t \in Threads |-> NoInfo]
    /\ processed = [t \in Threads |-> 0]
    /\ toScan = {}
    /\ envCount = 0
    /\ primed = [p \in Paths |-> {}]
    /\ startLen = [t \in Threads |-> 0]
    /\ delHash = [p \in Paths |-> NoHash]
    /\ healthy = "unprobed"
    /\ ignored = {"b.py"}
    /\ lastEnq = [p \in Paths |-> NoHash]

\* the same program; files may also grow over the size limit
NextIgnore == Next \/ \E p \in Paths : EnvWrite(p, cHuge)

SpecIgnore == InitIgnore /\ [][NextIgnore]_vars

\* the record is one that _get_file_info may return: an existing file of a
\* path that is not ignored, within the size limit
Admissible(info) ==
    /\ info.path \notin ignored
    /\ info.content # NoFile
    /\ info.content.len <= CACHE_MAX_FILE_SIZE
    /\ info.hash = Hash(info.content)

\* C18 (ineligible paths are never touched): an ignored path is never a key
\* of file_hashes or cached_files; every record in the pending queue or in
\* the hands of cache_file is that of an eligible path and of a file within
\* the size limit; no fingerprint of an oversize file is ever recorded.
C18_IneligibleUntouched ==
    /\ \A p \in ignored :
           file_hashes[p] = NoHash /\ cached_files[p] = NoHash
    /\ \A i \in 1..Len(cache_queue) : Admissible(cache_queue[i])
    /\ \A t \in Threads : cur[t] # NoInfo => Admissible(cur[t])
    /\ \A p \in Paths : Hash(cHuge) \notin {file_hashes[p], cached_files[p]}

\* every change the tree can take has happened and every event is handled:
\* the ignored path holds a file, the other one an oversize file, and neither
\* is recorded
C18_Witness ==
    /\ pc["main"] = "watching"
    /\ pc["ev"] = "idle"
    /\ events = <<>>
    /\ envCount = MaxEnv
    /\ fs["b.py"] \notin {NoFile, cHuge}
    /\ fs["a.py"] = cHuge
    /\ file_hashes = [p \in Paths |-> NoHash]


\* -------------------------------------------------- later supersedes earlier
\* every entry enqueued for path p has been processed: none is in the queue,
\* none is in the hands of a thread, and no thread died on the way
AllProcessed(p) ==
    /\ \A i \in 1..Len(cache_queue) : cache_queue[i].path # p
    /\ \A t \in Threads : cur[t] = NoInfo \/ cur[t].path # p
    /\ \A t \in Threads : pc[t] # "crashed"

\* C19 (later supersedes earlier): once every entry enqueued for a path since
\* its last deletion has been processed, with a known model, a backend that
\* answers 200 and a last entry that fits the budget, cached_files[path] is
\* the fingerprint of the entry enqueued last.
C19_LaterSupersedes ==
    \A p \in Paths :
        ( /\ lastEnq[p] # NoHash
          /\ AllProcessed(p)
          /\ model_id # NoModel
          /\ WithinBudget(p, ContentOf(lastEnq[p])) )
        => cached_files[p] = lastEnq[p]


\* ------------------------------------------------------ cached-entry invariant
\* thread t executes "self.cached_files[path] = hash" after a 200
Stores(t) == pc[t] = "cf_ok" /\ pc'[t] # "cf_ok"

\* C20 (cached-entry invariant): when a thread sets cached_files[path] to a
\* fingerprint after a successful priming request, file_hashes[path] holds
\* that same fingerprint.
C20_CachedEntryInvariant ==
    [][\A t \in Threads :
         Stores(t) => /\ file_hashes[cur[t].path] # NoHash
                      /\ cached_files'[cur[t].path] = file_hashes[cur[t].path]]_vars


\* ------------------------------------------------------ no retry, no poisoning
\* thread t leaves the failure branch of cache_file
FailureHandled(t) == pc[t] = "cf_err" /\ pc'[t] # "cf_err"

\* thread t sends a priming request
Sends(t) == pc[t] # "cf_post" /\ pc'[t] = "cf_post"

\* C21 (no retry, no poisoning): a thread sends a request only for the record
\* it has just taken (from the queue or from the scan), so at most one per
\* dequeued entry; after a failed request the thread drops the record, leaves
\* the queue as it is and returns to the loop of its caller, which goes on with
\* the head of the queue; the queue grows only by the append of add_to_queue.
C21_NoRetryNoPoisoning ==
    [][/\ \A t \in Threads :
            /\ Sends(t) => pc[t] \in {"cf_in", "cf_get"} /\ cur'[t] = cur[t]
            /\ pc[t] \in {"cf_post", "cf_ok", "cf_err"} /\ pc'[t] # pc[t] =>
                   pc'[t] \in {"cf_ok", "cf_err", IF t = "main" THEN "scan" ELSE "pq_loop"}
            /\ FailureHandled(t) =>
                   /\ cache_queue' = cache_queue
                   /\ cur'[t] = NoInfo
                   /\ pc'[t] = IF t = "main" THEN "scan" ELSE "pq_loop"
                   /\ processed'[t] = IF t = "main" THEN processed[t]
                                                    ELSE processed[t] + 1
       /\ Len(cache_queue') > Len(cache_queue) =>
            /\ pc["ev"] = "aq_append"
            /\ cache_queue' = Append(cache_queue, cur["ev"])
       /\ Len(cache_queue') < Len(cache_queue) =>
            \E t \in Threads : /\ pc[t] = "pq_pop"
                               /\ cur'[t] = Head(cache_queue)
                               /\ cache_queue' = Tail(cache_queue)]_vars

\* a request sent from inside a flush has failed while further entries wait
C21_Witness ==
    \E t \in {"ev", "fl"} : pc[t] = "cf_err" /\ cache_queue # <<>>


\* ------------------------------------------------------------- delete events
\* the observer thread takes a deleted event from the head of the event queue
DeletedDispatched ==
    /\ pc["ev"] = "idle"
    /\ events # <<>>
    /\ Head(events).kind = "deleted"
    /\ events' = Tail(events)

\* C22 (delete event, effect and frame): handling a deleted event for a path
\* recorded in file_hashes removes that path from file_hashes and from
\* cached_files and leaves the entries of every other path and the pending
\* queue as they were; for a path not recorded it changes neither map nor
\* the queue.
C22_DeleteEffectAndFrame ==
    [][DeletedDispatched =>
         LET p == Head(events).path IN
           /\ cache_queue' = cache_queue
           /\ pc'["ev"] = "idle"
           /\ IF file_hashes[p] # NoHash
              THEN /\ file_hashes' = [file_hashes EXCEPT ![p] = NoHash]
                   /\ cached_files' = [cached_files EXCEPT ![p] = NoHash]
              ELSE /\ file_hashes' = file_hashes
                   /\ cached_files' = cached_files]_vars

\* a path that was recorded and primed has had its deleted event handled (and
\* no created event since): it is in neither map
C22_Witness ==
    \E p \in Paths : /\ delHash[p] # NoHash
                     /\ file_hashes[p] = NoHash
                     /\ cached_files[p] = NoHash
                     /\ pc["ev"] = "idle"


\* -------------------------------------------------------- FileIndex ownership
\* the observer thread takes an event from the head of the event queue
EventDispatched ==
    /\ pc["ev"] = "idle"
    /\ events # <<>>
    /\ events' = Tail(events)

\* thread t takes a step of process_queue or cache_file
CacheManagerStep(t) == InFlush(t) /\ (pc'[t] # pc[t] \/ cur'[t] # cur[t])

\* C23 (FileIndex ownership): file_hashes changes only in a step of the
\* initial scan or in the handling of an event; no step of process_queue or
\* cache_file, in any thread, and no step of the periodic flush thread
\* changes it.
C23_FileIndexOwnership ==
    [][/\ file_hashes' # file_hashes => ScanStepTaken \/ EventDispatched
       /\ \A t \in Threads : CacheManagerStep(t) => file_hashes' = file_hashes
       /\ pc'["fl"] # pc["fl"] => file_hashes' = file_hashes]_vars

\* the periodic flush has primed and stored an entry for a path whose
\* file_hashes entry holds another fingerprint, which the flush left alone
C23_Witness ==
    /\ pc["fl"] = "pq_loop"
    /\ processed["fl"] = 1
    /\ \E p \in Paths : /\ file_hashes[p] # NoHash
                        /\ cached_files[p] # NoHash
                        /\ file_hashes[p] \notin primed[p]


\* ------------------------------------------------------------ unreadable files
\* the observer thread takes a created or modified event
WriteEventDispatched ==
    EventDispatched /\ Head(events).kind \in {"created", "modified"}

\* C24 (unreadable file on an event): handling a created or modified event
\* either records the fingerprint of the file that is there, or (the only
\* possibility when the file is gone, and what happens when the read fails)
\* leaves file_hashes, cached_files and the pending queue unchanged, sends
\* nothing and leaves the observer thread ready for the next event.
C24_UnreadableOnEvent ==
    [][WriteEventDispatched =>
         LET p == Head(events).path IN
           /\ cached_files' = cached_files
           /\ cache_queue' = cache_queue
           /\ pc'["ev"] \in {"idle", "aq_append"}
           /\ \/ /\ file_hashes' = file_hashes
                 /\ pc' = pc
                 /\ cur' = cur
              \/ /\ fs[p] # NoFile
                 /\ file_hashes' = [file_hashes EXCEPT ![p] = Hash(fs[p])]]_vars

\* a created or modified event is about to be handled for a path whose file
\* has been removed in between, and a later event waits behind it
C24_Witness ==
    /\ pc["ev"] = "idle"
    /\ Len(events) >= 2
    /\ Head(events).kind \in {"created", "modified"}
    /\ fs[Head(events).path] = NoFile


\* --------------------------------------------------------------- bounded queue
\* C25 (bounded queue): the pending queue never holds more than
\* CACHE_BATCH_SIZE entries, and holds fewer whenever the observer thread is
\* between two events.
C25_BoundedQueue ==
    /\ Len(cache_queue) <= CACHE_BATCH_SIZE
    /\ pc["ev"] = "idle" => Len(cache_queue) < CACHE_BATCH_SIZE

\* the append of add_to_queue has just filled the queue to the batch size
\* while the periodic flush thread is at work in process_queue
C25_Witness ==
    /\ pc["ev"] = "aq_len"
    /\ Len(cache_queue) = CACHE_BATCH_SIZE
    /\ InFlush("fl")


\* ------------------------------------------------- cache tracking and the index
\* C26 (cache tracking is a subset of the index): in the Watching state every
\* path that is a key of cached_files is a key of file_hashes.
C26_CachedSubsetOfIndex ==
    pc["main"] = "watching" =>
        \A p \in Paths : cached_files[p] # NoHash => file_hashes[p] # NoHash


\* ---------------------------------------------------------------- safe dequeue
\* thread t executes "self.cache_queue.popleft()"
Pops(t) == pc[t] = "pq_pop" /\ pc'[t] # "pq_pop"

\* C27 (safe dequeue under concurrency): a thread that executes popleft finds
\* the queue non-empty and takes its head, which no other thread takes, so
\* that no thread dies of the IndexError of a popleft on an empty queue.
C27_SafeDequeue ==
    [][\A t \in Threads :
         Pops(t) => /\ cache_queue # <<>>
                    /\ cur'[t] = Head(cache_queue)
                    /\ cache_queue' = Tail(cache_queue)
                    /\ pc'[t] # "crashed"]_vars

====
